---------------------------- MODULE Spec2Model ----------------------------
(***************************************************************************)
(* Google Maps integration filter (open-webui-functions/                   *)
(* google_maps_filter.py): the pre-call hook Filter.inlet, the backend     *)
(* client Filter.call_maps_backend, the post-call hook Filter.outlet and   *)
(* the response enhancer Filter.enhance_maps_response.                     *)
(*                                                                         *)
(* Text is a sequence of atoms.  An atom is one character, one emoji code  *)
(* point (named by its code point, "U+1F4CD"), or, in text the filter only *)
(* concatenates and never searches, one literal chunk of a template.       *)
(* A Python dict is a function on its keys; a value whose Python type      *)
(* matters to the code (None, dict, list, ...) carries its type in the     *)
(* field t.                                                                *)
(***************************************************************************)
EXTENDS Integers, Sequences, FiniteSets, TLC

VARIABLES
    valves,       \* Filter.valves: the operator's configuration
    pc,           \* position of the invocation under way
    user,         \* inlet: the __user__ argument
    body,         \* inlet: the body argument as the host passed it
    ret,          \* inlet: the body returned
    err,          \* inlet: the exception raised out of the hook
    response,     \* the backend's answer to requests.post
    client_result,\* what call_maps_backend gave its caller
    backend_calls,\* number of requests.post calls made
    rhist         \* outlet: the response body before and after each pass

vars == <<valves, pc, user, body, ret, err, response, client_result,
          backend_calls, rhist>>

-----------------------------------------------------------------------------
(* Bounds of the model *)

\* longest conversation the host passes to inlet
MaxMsgs == 5
\* longest places list of a backend response
MaxPlaces == 7
\* longest places list of a backend response seen through inlet
MaxInletPlaces == 1
\* number of pieces a response text is built from
MaxPieces == 2
\* number of times the host runs outlet over one response body
MaxPasses == 2

-----------------------------------------------------------------------------
(* Python values *)

EmptyDict == [k \in {} |-> 0]
Has(d, k) == k \in DOMAIN d
Get(d, k, default) == IF k \in DOMAIN d THEN d[k] ELSE default
Put(d, k, v) == [x \in (DOMAIN d) \cup {k} |-> IF x = k THEN v ELSE d[x]]

Min(a, b) == IF a < b THEN a ELSE b

RECURSIVE Join(_, _)
Join(sep, parts) ==
    IF parts = <<>> THEN <<>>
    ELSE IF Len(parts) = 1 THEN parts[1]
    ELSE parts[1] \o sep \o Join(sep, Tail(parts))

\* s[i:i+Len(pat)] == pat
MatchAt(s, i, pat) ==
    /\ i + Len(pat) - 1 <= Len(s)
    /\ SubSeq(s, i, i + Len(pat) - 1) = pat

\* pat in s
Contains(s, pat) == \E i \in 1..(Len(s) + 1) : MatchAt(s, i, pat)

-----------------------------------------------------------------------------
(* Python values whose type the code depends on *)

PyNone == [t |-> "none"]
PyBool(b) == [t |-> "bool", b |-> b]
PyNum(n) == [t |-> "num", n |-> n]
PyStr(s) == [t |-> "str", s |-> s]
PyList(s) == [t |-> "list", items |-> s]
PyDict(d) == [t |-> "dict", v |-> d]
\* an instance of a class, with its attributes
PyObject(attrs) == [t |-> "object", attrs |-> attrs]

\* bool(x)
Truthy(x) ==
    CASE x.t = "none" -> FALSE
      [] x.t = "bool" -> x.b
      [] x.t = "num" -> x.n # 0
      [] x.t = "str" -> x.s # <<>>
      [] x.t = "list" -> x.items # <<>>
      [] x.t = "dict" -> DOMAIN x.v # {}
      [] x.t = "object" -> TRUE

\* hasattr(x, name)
HasAttr(x, name) == x.t = "object" /\ name \in DOMAIN x.attrs

\* str(x) inside an f-string
Render(x) ==
    CASE x.t = "none" -> <<"None">>
      [] x.t = "str" -> x.s
      [] x.t = "num" -> <<ToString(x.n)>>

\* what a called function hands back: a value, or an exception on its way up
Return(value) == [kind |-> "return", value |-> value]
Raise(exc) == [kind |-> "raise", exc |-> exc]

-----------------------------------------------------------------------------
(* Emoji of the source, by code point *)

MapEmoji == <<"U+1F5FA", "U+FE0F">>
PinEmoji == <<"U+1F4CD">>
StarEmoji == <<"U+2B50">>
CompassEmoji == <<"U+1F9ED">>

KW_GoogleMaps == <<"G","o","o","g","l","e"," ","M","a","p","s">>
KW_Maps == <<"M","a","p","s">>
KW_Lokasi == <<"L","o","k","a","s","i">>
KW_Location == <<"L","o","c","a","t","i","o","n">>
KW_Address == <<"A","d","d","r","e","s","s">>
KW_Alamat == <<"A","l","a","m","a","t">>
KW_Rating == <<"R","a","t","i","n","g">>
KW_Direction == <<"D","i","r","e","c","t","i","o","n">>
KW_Petunjuk == <<"P","e","t","u","n","j","u","k">>
KW_Arah == <<"A","r","a","h">>

-----------------------------------------------------------------------------
(* Filter.enhance_maps_response *)

\* index of the first alternative of the pattern that matches at s[i], or 0
FirstAlt(s, i, alts) ==
    IF \E k \in 1..Len(alts) : MatchAt(s, i, alts[k])
    THEN CHOOSE k \in 1..Len(alts) :
            /\ MatchAt(s, i, alts[k])
            /\ \A j \in 1..(k - 1) : ~MatchAt(s, i, alts[j])
    ELSE 0

\* re.sub(alts[1]|alts[2]|..., repl, s) from position i on: the leftmost match,
\* the first alternative that matches there, then on after the match.
\* The replacement is `fixed` when it is not empty, and prefix + match otherwise.
RECURSIVE re_sub(_, _, _, _, _)
re_sub(alts, prefix, fixed, s, i) ==
    IF i > Len(s) THEN <<>>
    ELSE LET k == FirstAlt(s, i, alts) IN
         IF k = 0
         THEN <<s[i]>> \o re_sub(alts, prefix, fixed, s, i + 1)
         ELSE (IF fixed = <<>> THEN prefix \o alts[k] ELSE fixed)
                  \o re_sub(alts, prefix, fixed, s, i + Len(alts[k]))

TitlePattern == <<KW_GoogleMaps, KW_Maps, KW_Lokasi, KW_Location>>
AddressPattern == <<KW_Address \o <<":">>, KW_Alamat \o <<":">> >>
RatingPattern == <<KW_Rating, StarEmoji>>
DirectionPattern == <<KW_Direction, KW_Petunjuk, KW_Arah>>

\* a plausible slip: only the title substitution is applied
enhance_titles_only(content) ==
    re_sub(TitlePattern, MapEmoji \o <<" ">>, <<>>, content, 1)

\* a plausible slip: the rating substitution writes the star twice
enhance_double_star(content) ==
    LET e1 == re_sub(TitlePattern, MapEmoji \o <<" ">>, <<>>, content, 1)
        e2 == re_sub(AddressPattern, PinEmoji \o <<" ">>, <<>>, e1, 1)
        e3 == re_sub(RatingPattern, <<>>,
                     StarEmoji \o StarEmoji \o <<" ">> \o KW_Rating, e2, 1)
    IN  re_sub(DirectionPattern, CompassEmoji \o <<" ">>, <<>>, e3, 1)

enhance_maps_response(content) ==
    LET e1 == re_sub(TitlePattern, MapEmoji \o <<" ">>, <<>>, content, 1)
        e2 == re_sub(AddressPattern, PinEmoji \o <<" ">>, <<>>, e1, 1)
        e3 == re_sub(RatingPattern, <<>>,
                     StarEmoji \o <<" ">> \o KW_Rating, e2, 1)
    IN  re_sub(DirectionPattern, CompassEmoji \o <<" ">>, <<>>, e3, 1)

-----------------------------------------------------------------------------
(* Filter.outlet *)

HasChoices(b) == Has(b, "choices") /\ b["choices"] # <<>>

\* the content outlet reads: lines 282-286
response_content(b) ==
    IF HasChoices(b)
    THEN Get(Get(b["choices"][1], "message", EmptyDict), "content", PyStr(<<>>))
    ELSE IF Has(b, "message")
    THEN Get(b["message"], "content", PyStr(<<>>))
    ELSE PyStr(<<>>)

\* a plausible slip: the enhanced text always goes to message.content
outlet_writes_message(b) ==
    LET content == response_content(b) IN
    IF Truthy(content)
    THEN Put(b, "message",
             Put(Get(b, "message", EmptyDict), "content",
                 PyStr(enhance_maps_response(content.s))))
    ELSE b

outlet(b) ==
    LET content == response_content(b) IN
    IF Truthy(content)
    THEN LET enhanced_content == PyStr(enhance_maps_response(content.s)) IN
         IF HasChoices(b)
         THEN Put(b, "choices",
                  [b["choices"] EXCEPT ![1] =
                      Put(@, "message", Put(@["message"], "content", enhanced_content))])
         ELSE IF Has(b, "message")
         THEN Put(b, "message", Put(b["message"], "content", enhanced_content))
         ELSE b
    ELSE b

-----------------------------------------------------------------------------
(* The response bodies the host hands to outlet *)

T_maps == <<"m","a","p","s">>
T_45 == <<" ","4",".","5">>
ExampleText == <<"A","d","d","r","e","s","s",":"," ","1","2","3"," ","M","a","i","n"," ","S","t",","," ","R","a","t","i","n","g"," ","4",".","5">>

Pieces ==
    { KW_GoogleMaps, KW_Maps, KW_Lokasi, KW_Location, KW_Address, KW_Alamat,
      KW_Rating, KW_Direction, KW_Petunjuk, KW_Arah, StarEmoji,
      <<":">>, <<" ">>, T_maps, T_45 }

RECURSIVE PieceTexts(_)
PieceTexts(n) ==
    IF n = 0 THEN {<<>>}
    ELSE LET shorter == PieceTexts(n - 1) IN
         shorter \cup {t \o p : t \in shorter, p \in Pieces}

Texts == PieceTexts(MaxPieces) \cup {ExampleText}

\* a message without content, with content null, and with a text
MessageDicts(texts) ==
    {("role" :> "assistant"), ("role" :> "assistant") @@ ("content" :> PyNone)}
        \cup {("role" :> "assistant") @@ ("content" :> PyStr(t)) : t \in texts}

ChoiceDicts(texts) ==
    {("index" :> 0)}
        \cup {("index" :> 0) @@ ("message" :> m) : m \in MessageDicts(texts)}

OtherChoice ==
    ("index" :> 1) @@ ("message" :> (("role" :> "assistant") @@ ("content" :> PyStr(KW_Rating))))

OtherMessage == ("role" :> "assistant") @@ ("content" :> PyStr(KW_Arah))

BaseBody == ("id" :> "chatcmpl-1") @@ ("model" :> "llm")

\* neither shape, either shape with every text, and with the texts of one
\* piece: a second choice, both shapes, and empty choices beside a message
OutletBodies ==
    {BaseBody, BaseBody @@ ("choices" :> <<>>)}
        \cup {BaseBody @@ ("choices" :> <<c>>) : c \in ChoiceDicts(Texts)}
        \cup {BaseBody @@ ("message" :> m) : m \in MessageDicts(Texts)}
        \cup {BaseBody @@ ("choices" :> <<c, OtherChoice>>) : c \in ChoiceDicts(PieceTexts(1))}
        \cup {BaseBody @@ ("choices" :> <<c>>) @@ ("message" :> OtherMessage) :
                c \in ChoiceDicts(PieceTexts(1))}
        \cup {BaseBody @@ ("choices" :> <<>>) @@ ("message" :> m) :
                m \in MessageDicts(PieceTexts(1))}

-----------------------------------------------------------------------------
(* Filter.Valves, Filter.UserValves, Filter.__init__ *)

\* Valves.max_turns default
DefaultMaxTurns == 8
\* the default of user_max_turns in inlet
DefaultUserMaxTurns == 4
\* places[:5]
TopN == 5

location_keywords ==
  << <<"f","i","n","d">>,
     <<"s","e","a","r","c","h">>,
     <<"l","o","c","a","t","e">>,
     <<"w","h","e","r","e">>,
     <<"n","e","a","r">>,
     <<"n","e","a","r","b","y">>,
     <<"a","r","o","u","n","d">>,
     <<"c","l","o","s","e","s","t">>,
     <<"n","e","a","r","e","s","t">>,
     <<"r","e","s","t","a","u","r","a","n","t">>,
     <<"c","o","f","f","e","e">>,
     <<"s","h","o","p">>,
     <<"s","t","o","r","e">>,
     <<"h","o","t","e","l">>,
     <<"g","a","s"," ","s","t","a","t","i","o","n">>,
     <<"b","a","n","k">>,
     <<"h","o","s","p","i","t","a","l">>,
     <<"p","h","a","r","m","a","c","y">>,
     <<"m","a","l","l">>,
     <<"m","a","r","k","e","t">>,
     <<"c","a","r","i">>,
     <<"t","e","m","u","k","a","n">>,
     <<"d","i","m","a","n","a">>,
     <<"d","e","k","a","t">>,
     <<"t","e","r","d","e","k","a","t">>,
     <<"s","e","k","i","t","a","r">>,
     <<"l","o","k","a","s","i">>,
     <<"t","e","m","p","a","t">>,
     <<"r","e","s","t","o","r","a","n">>,
     <<"r","u","m","a","h"," ","m","a","k","a","n">>,
     <<"w","a","r","u","n","g">>,
     <<"k","a","f","e">>,
     <<"t","o","k","o">>,
     <<"h","o","t","e","l">>,
     <<"s","p","b","u">>,
     <<"b","a","n","k">>,
     <<"r","u","m","a","h"," ","s","a","k","i","t">>,
     <<"a","p","o","t","e","k">>,
     <<"m","a","l","l">>,
     <<"p","a","s","a","r">> >>

UpperToLower ==
    ("A" :> "a") @@ ("B" :> "b") @@ ("C" :> "c") @@ ("D" :> "d") @@ ("E" :> "e") @@ ("F" :> "f") @@ ("G" :> "g") @@ ("H" :> "h") @@ ("I" :> "i") @@ ("J" :> "j") @@ ("K" :> "k") @@ ("L" :> "l") @@ ("M" :> "m")
    @@ ("N" :> "n") @@ ("O" :> "o") @@ ("P" :> "p") @@ ("Q" :> "q") @@ ("R" :> "r") @@ ("S" :> "s") @@ ("T" :> "t") @@ ("U" :> "u") @@ ("V" :> "v") @@ ("W" :> "w") @@ ("X" :> "x") @@ ("Y" :> "y") @@ ("Z" :> "z")

\* str.lower()
Lower(s) == [i \in 1..Len(s) |-> IF s[i] \in DOMAIN UpperToLower THEN UpperToLower[s[i]] ELSE s[i]]

is_location_query(message) ==
    LET message_lower == Lower(message) IN
    \E k \in 1..Len(location_keywords) : Contains(message_lower, location_keywords[k])

-----------------------------------------------------------------------------
(* Filter.call_maps_backend *)

\* place['name'] or place['formatted_address'] raises KeyError
PlaceRaises(place) == ~Has(place, "name") \/ ~Has(place, "formatted_address")

\* "x" * n
RECURSIVE Repeat(_, _)
Repeat(s, n) == IF n <= 0 THEN <<>> ELSE s \o Repeat(s, n - 1)

\* one block of place_info: lines 138-157
format_place(place) ==
    LET rating == Get(place, "rating", 0)
        price_level == Get(place, "price_level", 0)
        website == Get(place, "website", <<>>)
        phone == Get(place, "formatted_phone_number", <<>>)
        opening_hours == Get(place, "opening_hours", EmptyDict)
    IN  <<"U+1F4CD", " **">> \o place["name"] \o <<"**">>
        \o (IF rating # 0
            THEN <<" (", "U+2B50", " ">> \o <<ToString(rating)>> \o <<"/5)">>
            ELSE <<>>)
        \o <<"\n   ", "U+1F4CD", " ">> \o place["formatted_address"]
        \o (IF price_level # 0
            THEN <<"\n   ", "U+1F4B0", " Price Level: ">>
                     \o Repeat(<<"U+1F4B0">>, price_level)
            ELSE <<>>)
        \o (IF website # <<>>
            THEN <<"\n   ", "U+1F310", " Website: ">> \o website
            ELSE <<>>)
        \o (IF phone # <<>>
            THEN <<"\n   ", "U+1F4DE", " Phone: ">> \o phone
            ELSE <<>>)
        \o (IF DOMAIN opening_hours # {} /\ Has(opening_hours, "open_now")
            THEN <<"\n   ", "U+1F552", " Status: ">>
                     \o (IF opening_hours["open_now"]
                         THEN <<"U+1F7E2", " Open Now">>
                         ELSE <<"U+1F534", " Closed">>)
            ELSE <<>>)

\* places[:5]
top_places(places) == SubSeq(places, 1, Min(Len(places), TopN))

\* the body of the try block: lines 105-174
maps_backend_try(query, resp) ==
    IF resp.kind = "timeout" THEN Raise("Timeout")
    ELSE IF resp.kind = "connection_error" THEN Raise("ConnectionError")
    ELSE IF resp.status_code = 200
    THEN IF ~resp.body.valid THEN Raise("JSONDecodeError")
         ELSE LET result == resp.body.value IN
              IF result.t # "dict" THEN Raise("AttributeError")
              ELSE IF Truthy(Get(result.v, "success", PyNone)) /\ Has(result.v, "data")
              THEN LET data == result.v["data"] IN
                   IF data.t # "dict" THEN Raise("AttributeError")
                   ELSE LET places == Get(data.v, "places", PyList(<<>>)) IN
                        IF Truthy(places)
                        THEN LET top == top_places(places.items) IN
                             IF \E i \in 1..Len(top) : PlaceRaises(top[i])
                             THEN Raise("KeyError")
                             ELSE Return(PyDict(
                                    [formatted_places |->
                                        [i \in 1..Len(top) |-> format_place(top[i])],
                                     map_url |-> Get(data.v, "map_url", PyNone),
                                     directions_url |-> Get(data.v, "directions_url", PyNone),
                                     center |-> Get(data.v, "center", PyNone),
                                     zoom |-> Get(data.v, "zoom", PyNone),
                                     raw_data |-> result]))
                        ELSE Return(result)
              ELSE Return(result)
    ELSE Return(PyNone)

\* requests.exceptions.RequestException and its subclasses
RequestExceptions == {"Timeout", "ConnectionError", "JSONDecodeError"}

\* a plausible slip: only the network errors are caught
call_maps_backend_network_only(query, resp) ==
    LET o == maps_backend_try(query, resp) IN
    IF o.kind = "raise" /\ o.exc \in RequestExceptions THEN Return(PyNone) ELSE o

\* try ... except RequestException ... except Exception: lines 104, 176-181
call_maps_backend(query, resp) ==
    LET o == maps_backend_try(query, resp) IN
    IF o.kind = "raise"
    THEN IF o.exc \in RequestExceptions THEN Return(PyNone) ELSE Return(PyNone)
    ELSE o

-----------------------------------------------------------------------------
(* Filter.create_maps_context *)

create_maps_context(maps_data, query) ==
    LET formatted_places == Get(maps_data, "formatted_places", <<>>)
        map_url == Get(maps_data, "map_url", PyStr(<<>>))
        directions_url == Get(maps_data, "directions_url", PyStr(<<>>))
        places_text == IF formatted_places # <<>>
                       THEN Join(<<"\n\n">>, formatted_places)
                       ELSE <<"No places found">>
    IN  <<"GOOGLE MAPS SEARCH RESULTS for query: \"">> \o query
        \o <<"\"\n\nFOUND LOCATIONS:\n">> \o places_text
        \o <<"\n\nMAP LINKS:\n- View on Google Maps: ">> \o Render(map_url)
        \o <<"\n- Get Directions: ">> \o Render(directions_url)
        \o <<"\n\nPlease use this Google Maps data to provide a helpful response about these locations.">>

-----------------------------------------------------------------------------
(* Filter.inlet *)

SystemHead ==
    <<"You are GoogleMapsAI, an intelligent assistant that helps users find locations using Google Maps data.\n\n">>
SystemTail ==
    <<"\n\nPlease provide a helpful, conversational response about these locations. Include: ... Be natural, friendly, and informative in your response.">>

\* a plausible slip: the larger of the two limits is taken
max_turns_larger(v, u) ==
    LET user_valves == Get(u.v, "valves", PyNone)
        user_max_turns == IF Truthy(user_valves) /\ HasAttr(user_valves, "max_turns")
                          THEN user_valves.attrs["max_turns"]
                          ELSE DefaultUserMaxTurns
    IN  IF user_max_turns > v.max_turns THEN user_max_turns ELSE v.max_turns

\* the turn limit of this invocation: lines 193-199
max_turns(v, u) ==
    LET user_valves == Get(u.v, "valves", PyNone)
        user_max_turns == IF Truthy(user_valves) /\ HasAttr(user_valves, "max_turns")
                          THEN user_valves.attrs["max_turns"]
                          ELSE DefaultUserMaxTurns
    IN  Min(user_max_turns, v.max_turns)

\* the guard of the raise: lines 191-201
turn_limit_exceeded(v, b, u) ==
    /\ Truthy(u)
    /\ Get(u.v, "role", "admin") \in {"user", "admin"}
    /\ Len(Get(b, "messages", <<>>)) > max_turns(v, u)

\* a plausible slip: the per-user flag is not looked at
maps_disabled_for_user_ignored(u) == FALSE

\* lines 212-213
maps_disabled_for_user(u) ==
    LET user_valves == IF Truthy(u) THEN Get(u.v, "valves", PyNone) ELSE PyNone IN
    /\ Truthy(user_valves)
    /\ HasAttr(user_valves, "enable_maps_for_user")
    /\ ~user_valves.attrs["enable_maps_for_user"]

\* the system message of lines 250-263
system_message(maps_result, user_query) ==
    [role |-> "system",
     content |-> SystemHead \o create_maps_context(maps_result.v, user_query) \o SystemTail]

\* a plausible slip: the system message is added after the conversation
enhanced_messages_appended(messages, maps_result, user_query) ==
    messages \o <<system_message(maps_result, user_query)>>

\* lines 250-263
enhanced_messages(messages, maps_result, user_query) ==
    <<system_message(maps_result, user_query)>> \o messages

\* a plausible slip: the result is tested against None, not for truth
has_maps_result_not_none(maps_result) == maps_result # PyNone

\* if maps_result: line 243
has_maps_result(maps_result) == Truthy(maps_result)

\* whether inlet gets as far as self.call_maps_backend: lines 190-237
reaches_backend(v, b, u) ==
    LET messages == Get(b, "messages", <<>>) IN
    /\ ~turn_limit_exceeded(v, b, u)
    /\ v.enable_maps_integration
    /\ ~maps_disabled_for_user(u)
    /\ messages # <<>>
    /\ Get(messages[Len(messages)], "role", "None") = "user"
    /\ is_location_query(Get(messages[Len(messages)], "content", <<>>))

\* the outcome of one invocation: what is returned or raised, whether the
\* backend was called and what the client gave
inlet(v, b, u, resp) ==
    IF turn_limit_exceeded(v, b, u)
    THEN [kind |-> "raise", exc |-> "Exception",
          message |-> <<"Conversation turn limit exceeded. Max turns: ",
                        ToString(max_turns(v, u))>>,
          called |-> FALSE, maps_result |-> PyNone]
    ELSE IF ~reaches_backend(v, b, u)
    THEN [kind |-> "return", value |-> b, called |-> FALSE, maps_result |-> PyNone]
    ELSE LET messages == b["messages"]
             user_query == Get(messages[Len(messages)], "content", <<>>)
             o == call_maps_backend(user_query, resp)
         IN  IF o.kind = "raise"
             THEN [kind |-> "raise", exc |-> o.exc, message |-> <<o.exc>>,
                   called |-> TRUE, maps_result |-> PyNone]
             ELSE IF has_maps_result(o.value)
             THEN [kind |-> "return",
                   value |-> Put(b, "messages",
                                 enhanced_messages(messages, o.value, user_query)),
                   called |-> TRUE, maps_result |-> o.value]
             ELSE [kind |-> "return", value |-> b, called |-> TRUE,
                   maps_result |-> o.value]

-----------------------------------------------------------------------------
(* What the host may pass to inlet *)

Q_FindCafe == <<"F","i","n","d"," ","c","a","f","e">>
Q_Lokasi == <<"L","O","K","A","S","I"," ","A","T","M","?">>
Q_Hello == <<"H","e","l","l","o">>
Q_Thanks == <<"T","h","a","n","k","s"," ","a"," ","l","o","t">>

\* the operator's settings: the default turn limit or a lower one, the
\* integration on or off
ValvesSet ==
    [max_turns : {DefaultMaxTurns, 3}, enable_maps_integration : BOOLEAN]

\* the valves object of a user: a UserValves instance (the default one among
\* them), or an object that lacks one or both attributes
UserValvesObjects ==
    { PyObject(EmptyDict),
      PyObject("max_turns" :> 2),
      PyObject("enable_maps_for_user" :> FALSE),
      PyObject(("max_turns" :> DefaultUserMaxTurns) @@ ("enable_maps_for_user" :> TRUE)),
      PyObject(("max_turns" :> 2) @@ ("enable_maps_for_user" :> TRUE)),
      PyObject(("max_turns" :> 6) @@ ("enable_maps_for_user" :> FALSE)) }

UserDicts ==
    LET ids == {("id" :> "u1")}
        withRole == ids \cup {d @@ ("role" :> r) : d \in ids, r \in {"user", "admin", "pending"}}
    IN  withRole \cup {d @@ ("valves" :> uv) : d \in withRole, uv \in UserValvesObjects}

\* __user__: absent, an empty dict, or a user of the host
Users == {PyNone, PyDict(EmptyDict)} \cup {PyDict(d) : d \in UserDicts}

LatestMessages ==
    {[role |-> "user", content |-> Q_FindCafe],
     [role |-> "user", content |-> Q_Lokasi],
     [role |-> "user", content |-> Q_Thanks],
     [role |-> "assistant", content |-> Q_FindCafe],
     [role |-> "system", content |-> Q_Lokasi],
     ("role" :> "user")}

\* the earlier turns: user and assistant in alternation, either one first
History(n, first) ==
    [i \in 1..n |-> IF (i % 2 = 1) = first
                    THEN [role |-> "user", content |-> Q_Hello]
                    ELSE [role |-> "assistant", content |-> Q_FindCafe]]

Histories(n) == {History(k, first) : k \in 0..n, first \in BOOLEAN}

Conversations ==
    {<<>>} \cup {Append(h, m) : h \in Histories(MaxMsgs - 1), m \in LatestMessages}

RequestBase == ("model" :> "llm") @@ ("stream" :> TRUE)

\* the request bodies the host hands to inlet
InletBodies ==
    {RequestBase} \cup {RequestBase @@ ("messages" :> c) : c \in Conversations}

-----------------------------------------------------------------------------
(* What the backend may answer *)

PlaceFull ==
    [name |-> <<"Kopi A">>, formatted_address |-> <<"Jl. Sudirman 1">>,
     rating |-> 4, price_level |-> 2, website |-> <<"https://a.example">>,
     formatted_phone_number |-> <<"021-1">>, opening_hours |-> [open_now |-> TRUE]]
PlaceBare ==
    [name |-> <<"Warung B">>, formatted_address |-> <<"Jl. Thamrin 2">>,
     rating |-> 0, opening_hours |-> [open_now |-> FALSE]]
PlaceNoName == [formatted_address |-> <<"Jl. Gatot Subroto 3">>, rating |-> 5]
PlaceNoAddress == [name |-> <<"Kafe C">>, price_level |-> 1]

PlaceRecords == {PlaceFull, PlaceBare, PlaceNoName, PlaceNoAddress}

RECURSIVE PlaceLists(_)
PlaceLists(n) ==
    IF n = 0 THEN {<<>>}
    ELSE LET shorter == PlaceLists(n - 1) IN
         shorter \cup {Append(l, p) : l \in {x \in shorter : Len(x) = n - 1},
                                      p \in PlaceRecords}

DataLinks ==
    ("map_url" :> PyStr(<<"https://maps.example/view">>))
        @@ ("directions_url" :> PyStr(<<"https://maps.example/dir">>))

\* the values of the key data
DataValues(n) ==
    {PyNone, PyList(<<>>), PyDict(DataLinks)}
        \cup {PyDict(("places" :> PyList(l))) : l \in {<<>>, <<PlaceFull>>}}
        \cup {PyDict(DataLinks @@ ("places" :> PyList(l))) : l \in PlaceLists(n)}

\* the JSON objects of a 200 answer
ResultDicts(n) ==
    {EmptyDict, ("error" :> <<"quota exceeded">>)}
        \cup {("success" :> PyBool(s)) : s \in BOOLEAN}
        \cup {("data" :> d) : d \in DataValues(0)}
        \cup {("success" :> PyBool(s)) @@ ("data" :> d) : s \in BOOLEAN, d \in DataValues(n)}

JsonValues(n) ==
    {PyNone, PyList(<<>>), PyNum(0)} \cup {PyDict(r) : r \in ResultDicts(n)}

\* the outcomes of requests.post, with the places lists no longer than n
Responses(n) ==
    {[kind |-> "timeout"], [kind |-> "connection_error"]}
        \cup {[kind |-> "http", status_code |-> s, body |-> [valid |-> FALSE]] :
                s \in {200, 500}}
        \cup {[kind |-> "http", status_code |-> 404,
               body |-> [valid |-> TRUE, value |-> PyDict(("error" :> <<"not found">>))]]}
        \cup {[kind |-> "http", status_code |-> 200, body |-> [valid |-> TRUE, value |-> j]] :
                j \in JsonValues(n)}

NoResponse == [kind |-> "none"]

-----------------------------------------------------------------------------
(* The host: one invocation of a hook per behaviour *)

Idle ==
    /\ user = PyNone
    /\ body = EmptyDict
    /\ ret = EmptyDict
    /\ err = <<>>
    /\ response = NoResponse
    /\ client_result = PyNone
    /\ backend_calls = 0

Init ==
    /\ valves \in ValvesSet
    /\ pc = "idle"
    /\ rhist = <<>>
    /\ Idle

\* the host calls inlet(body, __user__); the backend, if asked, answers
Inlet ==
    /\ pc = "idle"
    /\ \E b \in InletBodies, u \in Users :
        \E resp \in (IF reaches_backend(valves, b, u)
                     THEN Responses(MaxInletPlaces) ELSE {NoResponse}) :
            LET o == inlet(valves, b, u, resp) IN
            /\ body' = b
            /\ user' = u
            /\ response' = resp
            /\ backend_calls' = IF o.called THEN 1 ELSE 0
            /\ client_result' = o.maps_result
            /\ pc' = IF o.kind = "raise" THEN "raised" ELSE "returned"
            /\ ret' = IF o.kind = "raise" THEN EmptyDict ELSE o.value
            /\ err' = IF o.kind = "raise" THEN o.message ELSE <<>>
    /\ UNCHANGED <<valves, rhist>>

Next == Inlet

Spec == Init /\ [][Next]_vars

\* the client alone, against every answer of the backend
InitBackend ==
    /\ valves \in {[max_turns |-> DefaultMaxTurns, enable_maps_integration |-> TRUE]}
    /\ pc = "idle"
    /\ rhist = <<>>
    /\ Idle

CallMapsBackend ==
    /\ pc = "idle"
    /\ \E resp \in Responses(MaxPlaces) :
        LET o == call_maps_backend(Q_FindCafe, resp) IN
        /\ response' = resp
        /\ backend_calls' = 1
        /\ client_result' = IF o.kind = "raise" THEN PyNone ELSE o.value
        /\ pc' = IF o.kind = "raise" THEN "raised" ELSE "returned"
        /\ err' = IF o.kind = "raise" THEN <<o.exc>> ELSE <<>>
    /\ UNCHANGED <<valves, user, body, ret, rhist>>

SpecBackend == InitBackend /\ [][CallMapsBackend]_vars

\* the host calls outlet(body) on a response body, MaxPasses times over
InitOutlet ==
    /\ valves \in {[max_turns |-> DefaultMaxTurns, enable_maps_integration |-> TRUE]}
    /\ pc = "outlet"
    /\ rhist \in {<<b>> : b \in OutletBodies}
    /\ Idle

Outlet ==
    /\ pc = "outlet"
    /\ Len(rhist) <= MaxPasses
    /\ rhist' = Append(rhist, outlet(rhist[Len(rhist)]))
    /\ UNCHANGED <<valves, pc, user, body, ret, err, response, client_result, backend_calls>>

SpecOutlet == InitOutlet /\ [][Outlet]_vars

-----------------------------------------------------------------------------
(* Properties of inlet, under Spec *)

Invoked == pc # "idle"
Messages(b) == Get(b, "messages", <<>>)
UserGiven == user.t = "dict" /\ DOMAIN user.v # {}
UserRole == IF UserGiven THEN Get(user.v, "role", "admin") ELSE "no user"
UserValvesGiven == UserGiven /\ Has(user.v, "valves")

\* min(userMaxTurns, globalMaxTurns), the user limit being 4 when unset
StatedLimit ==
    LET userMax == IF UserValvesGiven /\ Has(user.v["valves"].attrs, "max_turns")
                   THEN user.v["valves"].attrs["max_turns"]
                   ELSE 4
    IN  Min(userMax, valves.max_turns)

OverLimit == Len(Messages(body)) > StatedLimit

TurnLimitError ==
    /\ pc = "raised"
    /\ err = <<"Conversation turn limit exceeded. Max turns: ", ToString(StatedLimit)>>

Unchanged == pc = "returned" /\ ret = body

\* exactly one message of role system put before the conversation, which
\* follows it as it was
Injected ==
    /\ pc = "returned"
    /\ Has(body, "messages") /\ Has(ret, "messages")
    /\ DOMAIN ret = DOMAIN body
    /\ \A k \in DOMAIN body \ {"messages"} : ret[k] = body[k]
    /\ Len(ret["messages"]) = Len(body["messages"]) + 1
    /\ ret["messages"][1]["role"] = "system"
    /\ \A i \in 1..Len(body["messages"]) : ret["messages"][i + 1] = body["messages"][i]

\* C1, as stated: every invocation with more messages than
\* min(userMaxTurns, globalMaxTurns) aborts with the turn-limit error and calls
\* no backend, whatever the user context
C1_AbortsWhateverUser ==
    (Invoked /\ OverLimit) => (TurnLimitError /\ backend_calls = 0)

\* C1, amended: the invocation aborts with the turn-limit error, without a
\* backend call, exactly when the user context is given (not absent, not
\* empty), its role is user or admin (admin when unset) and the conversation
\* has more messages than min(userMaxTurns, globalMaxTurns)
C1_AbortsForUserOrAdmin ==
    Invoked =>
        /\ (UserGiven /\ UserRole \in {"user", "admin"} /\ OverLimit)
                => (TurnLimitError /\ backend_calls = 0)
        /\ ~(UserGiven /\ UserRole \in {"user", "admin"} /\ OverLimit)
                => pc = "returned"

\* the defaults at work: no user valves, the operator's limit of 8, and a
\* fifth message
C1_Witness ==
    /\ pc = "raised"
    /\ UserGiven /\ ~UserValvesGiven /\ UserRole = "user"
    /\ valves.max_turns = 8
    /\ Len(Messages(body)) = 5
    /\ err = <<"Conversation turn limit exceeded. Max turns: ", "4">>

\* the answers the claims count as failures of the backend
NetworkError(r) == r.kind \in {"timeout", "connection_error"}
Answered200(r) == r.kind = "http" /\ r.status_code = 200 /\ r.body.valid
ObjectAnswer(r) == Answered200(r) /\ r.body.value.t = "dict"
SuccessOf(r) == Get(r.body.value.v, "success", PyNone)
PlacesOf(r) ==
    LET o == r.body.value.v IN
    IF Has(o, "data") /\ o["data"].t = "dict" /\ Has(o["data"].v, "places")
    THEN o["data"].v["places"].items
    ELSE <<>>
BadPlaceAnswer(r) ==
    /\ ObjectAnswer(r)
    /\ SuccessOf(r) = PyBool(TRUE)
    /\ \E i \in 1..Len(PlacesOf(r)) :
        /\ i <= 5
        /\ ~({"name", "formatted_address"} \subseteq DOMAIN PlacesOf(r)[i])

\* C2, as stated: when the backend is reached and answers success=false, or
\* the call fails with a network error, the body comes back unchanged
C2_FailureLeavesBodyUnchanged ==
    (Invoked /\ backend_calls = 1
        /\ \/ NetworkError(response)
           \/ (ObjectAnswer(response) /\ SuccessOf(response) = PyBool(FALSE)))
    => Unchanged

\* C3: whatever goes wrong in the client (a network failure, a status other
\* than 200, a body that is no JSON or no object, a place without name or
\* formatted_address) it gives None and raises nothing, and inlet returns the
\* body as it was
C3_ClientNeverRaises ==
    (Invoked /\ backend_calls = 1) =>
        /\ pc = "returned"
        /\ (\/ NetworkError(response)
            \/ response.status_code # 200
            \/ ~response.body.valid
            \/ response.body.value.t # "dict"
            \/ BadPlaceAnswer(response))
           => (client_result = PyNone /\ Unchanged)

\* a KeyError inside the loop over the places
C3_Witness ==
    /\ pc = "returned" /\ backend_calls = 1
    /\ BadPlaceAnswer(response)
    /\ client_result = PyNone
    /\ ret = body

LatestOf(b) == Messages(b)[Len(Messages(b))]
UserFlagOff ==
    /\ UserValvesGiven
    /\ Has(user.v["valves"].attrs, "enable_maps_for_user")
    /\ ~user.v["valves"].attrs["enable_maps_for_user"]

\* C4: with the turn limit not exceeded, inlet returns the body unchanged and
\* calls no backend when the integration is off, when the user's flag is
\* explicitly off, when there are no messages, when the latest message is not
\* the user's, and when the classifier says no
C4_PassThrough ==
    (Invoked /\ ~OverLimit
        /\ \/ ~valves.enable_maps_integration
           \/ UserFlagOff
           \/ Messages(body) = <<>>
           \/ LatestOf(body)["role"] # "user"
           \/ ~is_location_query(Get(LatestOf(body), "content", <<>>)))
    => (Unchanged /\ backend_calls = 0)

\* the user's flag alone stops a location query that would otherwise go out
C4_Witness ==
    /\ Invoked /\ ~OverLimit
    /\ valves.enable_maps_integration
    /\ UserFlagOff
    /\ Messages(body) # <<>>
    /\ LatestOf(body) = [role |-> "user", content |-> Q_Lokasi]
    /\ Unchanged /\ backend_calls = 0

Placeholder == "No places found"
InText(atom, text) == \E i \in 1..Len(text) : text[i] = atom
NoFormattedPlaces ==
    \/ ~Has(client_result.v, "formatted_places")
    \/ client_result.v["formatted_places"] = <<>>

InjectedWithContext ==
    /\ Injected
    /\ InText(Placeholder, ret["messages"][1]["content"]) <=> NoFormattedPlaces

\* C5, as stated: any result of the client other than None, the empty JSON
\* object included, gets one system message prepended, with the placeholder
\* when there are no formatted places; only None leaves the body unchanged
C5_AnyResultInjected ==
    (Invoked /\ backend_calls = 1 /\ pc = "returned") =>
        IF client_result # PyNone THEN InjectedWithContext ELSE Unchanged

\* C5, amended: any result of the client that is neither None nor the empty
\* JSON object gets one system message prepended, with the placeholder when
\* there are no formatted places; None and the empty object leave the body
\* unchanged
C5_NonEmptyResultInjected ==
    (Invoked /\ backend_calls = 1 /\ pc = "returned") =>
        IF client_result # PyNone /\ client_result # PyDict(EmptyDict)
        THEN InjectedWithContext
        ELSE Unchanged

\* success=true with an empty places list: the raw JSON, and the placeholder
C5_Witness ==
    /\ pc = "returned" /\ backend_calls = 1
    /\ ObjectAnswer(response)
    /\ SuccessOf(response) = PyBool(TRUE)
    /\ Has(response.body.value.v, "data")
    /\ response.body.value.v["data"] = PyDict(DataLinks @@ ("places" :> PyList(<<>>)))
    /\ client_result = response.body.value
    /\ InjectedWithContext
    /\ InText(Placeholder, ret["messages"][1]["content"])

\* C6: a returned conversation is the one passed in, or the one passed in
\* behind one new system message at index 0, nothing removed or reordered
C6_OnlyPrepends ==
    pc = "returned" => (Unchanged \/ Injected)

\* a system message in front of a conversation of several messages
C6_Witness ==
    /\ Injected
    /\ Len(body["messages"]) >= 3
    /\ ret # body

-----------------------------------------------------------------------------
(* Properties of call_maps_backend, under SpecBackend *)

FormattedPlaces == client_result.v["formatted_places"]

\* the block opens with the pin and the name of the place, and its address
\* follows
BuiltFrom(block, place) ==
    /\ Has(place, "name") /\ Has(place, "formatted_address")
    /\ SubSeq(block, 1, 4) = <<"U+1F4CD", " **">> \o place["name"] \o <<"**">>
    /\ \E i \in 1..(Len(block) - 3) :
            SubSeq(block, i, i + 3) = <<"\n   ", "U+1F4CD", " ">> \o place["formatted_address"]

BlocksOfFirstFive ==
    LET places == PlacesOf(response) IN
    /\ client_result.t = "dict"
    /\ Has(client_result.v, "formatted_places")
    /\ Len(FormattedPlaces) = Min(Len(places), 5)
    /\ \A i \in 1..Len(FormattedPlaces) : BuiltFrom(FormattedPlaces[i], places[i])

\* C7, as stated: a 200 answer with success=true and n >= 1 places gives
\* exactly min(n, 5) blocks, the i-th built from the i-th place
C7_FiveBlocksInOrder ==
    (Invoked /\ ObjectAnswer(response) /\ SuccessOf(response) = PyBool(TRUE)
        /\ Len(PlacesOf(response)) >= 1)
    => BlocksOfFirstFive

\* what does hold: the same, when each of the first five places carries a
\* name and a formatted_address
C7_FiveBlocksOfCompletePlaces ==
    (Invoked /\ ObjectAnswer(response) /\ SuccessOf(response) = PyBool(TRUE)
        /\ Len(PlacesOf(response)) >= 1 /\ ~BadPlaceAnswer(response))
    => BlocksOfFirstFive

\* seven complete places, five blocks
C7_SevenPlaces ==
    /\ Invoked /\ ObjectAnswer(response) /\ SuccessOf(response) = PyBool(TRUE)
    /\ Len(PlacesOf(response)) = 7
    /\ BlocksOfFirstFive
    /\ Len(FormattedPlaces) = 5

-----------------------------------------------------------------------------
(* Properties of outlet and enhance_maps_response, under SpecOutlet *)

\* the text of a content: empty when the content is null
TextOf(content) == IF content.t = "str" THEN content.s ELSE <<>>

\* the text as the claim locates it
StatedContent(b) ==
    IF Has(b, "choices") /\ Len(b["choices"]) > 0
    THEN IF Has(b["choices"][1], "message") /\ Has(b["choices"][1]["message"], "content")
         THEN TextOf(b["choices"][1]["message"]["content"])
         ELSE <<>>
    ELSE IF Has(b, "message") /\ Has(b["message"], "content")
    THEN TextOf(b["message"]["content"])
    ELSE <<>>

SameBut(d, e, k) == DOMAIN d = DOMAIN e /\ \A x \in DOMAIN d \ {k} : d[x] = e[x]

\* after is before with the text at choices[0].message.content replaced
WrittenToChoices(before, after, text) ==
    /\ SameBut(before, after, "choices")
    /\ Len(after["choices"]) = Len(before["choices"])
    /\ \A j \in 2..Len(before["choices"]) : after["choices"][j] = before["choices"][j]
    /\ SameBut(before["choices"][1], after["choices"][1], "message")
    /\ SameBut(before["choices"][1]["message"], after["choices"][1]["message"], "content")
    /\ after["choices"][1]["message"]["content"] = PyStr(text)

\* after is before with the text at message.content replaced
WrittenToMessage(before, after, text) ==
    /\ SameBut(before, after, "message")
    /\ SameBut(before["message"], after["message"], "content")
    /\ after["message"]["content"] = PyStr(text)

OutletStep(before, after) ==
    LET text == StatedContent(before) IN
    IF text = <<>> THEN after = before
    ELSE IF Has(before, "choices") /\ Len(before["choices"]) > 0
    THEN WrittenToChoices(before, after, enhance_maps_response(text))
    ELSE WrittenToMessage(before, after, enhance_maps_response(text))

\* C8: outlet reads choices[0].message.content when choices is there and not
\* empty, message.content otherwise; a text that is not empty is written back,
\* transformed, where it was read and nothing else changes; with no text the
\* body comes back as it was
C8_WritesBackWhereRead ==
    \A k \in 1..(Len(rhist) - 1) : OutletStep(rhist[k], rhist[k + 1])

\* both shapes in one body: the choices are rewritten, the message is left
C8_Witness ==
    /\ Len(rhist) >= 2
    /\ Has(rhist[1], "choices") /\ Len(rhist[1]["choices"]) = 1
    /\ Has(rhist[1], "message")
    /\ StatedContent(rhist[1]) = KW_Rating
    /\ rhist[2]["choices"][1]["message"]["content"] = PyStr(StarEmoji \o <<" ">> \o KW_Rating)
    /\ rhist[2]["message"] = rhist[1]["message"]

AddressColon == KW_Address \o <<":">>
PinBefore(t, i) == i > 2 /\ t[i - 1] = " " /\ t[i - 2] = "U+1F4CD"
StarBefore(t, i) == i > 2 /\ t[i - 1] = " " /\ t[i - 2] = "U+2B50"
\* two stars ahead of position i, side by side or each with its space
TwoStarsBefore(t, i) ==
    /\ StarBefore(t, i)
    /\ \/ (i > 3 /\ t[i - 3] = "U+2B50")
       \/ (i > 4 /\ t[i - 3] = " " /\ t[i - 4] = "U+2B50")

\* the texts outlet enhanced: the pairs (text read, text written)
Enhanced(k) == k < Len(rhist) /\ StatedContent(rhist[k]) # <<>>

ExampleEnhanced ==
    PinEmoji \o <<" ">> \o SubSeq(ExampleText, 1, 22)
        \o StarEmoji \o <<" ">> \o SubSeq(ExampleText, 23, 32)

\* C9, as stated: after one run of the enhancer every "Address:" has the pin
\* right before it and every "Rating" has the star, duplicated, right before it
C9_PinAndTwoStars ==
    \A k \in 1..Len(rhist) : Enhanced(k) =>
        LET t == StatedContent(rhist[k + 1]) IN
        \A i \in 1..Len(t) :
            /\ MatchAt(t, i, AddressColon) => PinBefore(t, i)
            /\ MatchAt(t, i, KW_Rating) => TwoStarsBefore(t, i)

\* C9, amended: after one run of the enhancer every "Address:" has the pin
\* and a space right before it and every "Rating" has one star and a space
\* right before it, the star not duplicated; the example becomes
\* pin "Address: 123 Main St, " star "Rating 4.5"
C9_PinAndOneStar ==
    \A k \in 1..Len(rhist) : Enhanced(k) =>
        LET t == StatedContent(rhist[k + 1]) IN
        /\ \A i \in 1..Len(t) :
            /\ MatchAt(t, i, AddressColon) => PinBefore(t, i)
            /\ MatchAt(t, i, KW_Rating) => (StarBefore(t, i) /\ ~TwoStarsBefore(t, i))
        /\ StatedContent(rhist[k]) = ExampleText => t = ExampleEnhanced

\* the example of the claim, enhanced once
C9_Witness ==
    /\ Len(rhist) >= 2
    /\ StatedContent(rhist[1]) = ExampleText
    /\ StatedContent(rhist[2]) = ExampleEnhanced

Keywords ==
    {KW_GoogleMaps, KW_Maps, KW_Lokasi, KW_Location, AddressColon,
     KW_Alamat \o <<":">>, KW_Rating, StarEmoji, KW_Direction, KW_Petunjuk, KW_Arah}
HasKeyword(t) == \E w \in Keywords : Contains(t, w)

EmojiAtoms == {"U+1F5FA", "U+1F4CD", "U+2B50", "U+1F9ED"}
EmojiCount(t) == Cardinality({i \in 1..Len(t) : t[i] \in EmojiAtoms})

\* the keywords of a text that an emoji and a space already precede
PrefixedKeywords(t) ==
    {i \in 3..Len(t) :
        /\ t[i - 1] = " " /\ t[i - 2] \in EmojiAtoms \cup {"U+FE0F"}
        /\ \E w \in Keywords \ {StarEmoji} : MatchAt(t, i, w)}

\* C10: a text with a keyword in it changes again on a second run of the
\* enhancer, which puts one more emoji before each keyword the first run
\* prefixed; a text with no keyword in it is returned as it is
C10_NotIdempotent ==
    \A k \in 1..Len(rhist) : Enhanced(k) =>
        LET t0 == StatedContent(rhist[k])
            t1 == StatedContent(rhist[k + 1])
        IN  /\ ~HasKeyword(t0) => t1 = t0
            /\ HasKeyword(t0) => t1 # t0
            /\ (HasKeyword(t0) /\ k + 2 <= Len(rhist)) =>
                LET t2 == StatedContent(rhist[k + 2]) IN
                /\ t2 # t1
                /\ Len(t2) > Len(t1)
                /\ PrefixedKeywords(t1) # {}
                /\ EmojiCount(t2) >= EmojiCount(t1) + Cardinality(PrefixedKeywords(t1))

\* two runs over a title: a second map before the first
C10_Witness ==
    /\ Len(rhist) >= 3
    /\ StatedContent(rhist[1]) = KW_GoogleMaps
    /\ StatedContent(rhist[2]) = MapEmoji \o <<" ">> \o KW_GoogleMaps
    /\ StatedContent(rhist[3]) = MapEmoji \o <<" ">> \o MapEmoji \o <<" ">> \o KW_GoogleMaps
=============================================================================
